---- MODULE Spec2Model ----
(***************************************************************************)
(* The asynchronous event pipeline of the Umami feeder middleware:         *)
(* the connection/retry state machine (retryConnection, connect,           *)
(* verifyConfig), the request path (ServeHTTP, ResponseWrapper.WriteHeader,*)
(* submitToFeed, getWebsiteId), the bounded queue and the batch dispatcher *)
(* (startWorker, umamiEventFeeder, reportEventsToUmami).                   *)
(***************************************************************************)
EXTENDS Integers, Sequences, FiniteSets, TLC

(***************************************************************************)
(* Bounds of the model.                                                    *)
(***************************************************************************)
QueueSize == 1        \* config.QueueSize: capacity of the event channel
BatchSize == 2        \* config.BatchSize
BatchMaxWait == 1     \* config.BatchMaxWait, in clock ticks
MaxRequests == 2      \* requests accepted by ServeHTTP, over all workers
MaxAttempts == 8      \* retryAttempt counts up to this value and stays there

Workers == {"w1", "w2"}
NoOwner == "none"

(***************************************************************************)
(* Requests.  A raw Host header is a name with a letter case and an        *)
(* optional port; the cache is keyed by the normalised name.               *)
(***************************************************************************)
Hostnames == {"a", "b"}

RawHost(n, u, p) == [name |-> n, upper |-> u, port |-> p]

\* req.Header holds at most the client-address header; req.RemoteAddr is the
\* "IP:port" of the connection
RealIP(ip) == [name \in {"X-Real-IP"} |-> ip]

NoHeader == [name \in {} |-> ""]

Requests ==
  { [Host |-> RawHost("a", FALSE, FALSE), Path |-> "/",
     Header |-> RealIP("192.168.0.1"), RemoteAddr |-> "172.17.0.2:41000",
     UserAgent |-> <<"Mozilla">>],
    [Host |-> RawHost("b", TRUE, TRUE), Path |-> "/products.html",
     Header |-> RealIP("10.0.1.1"), RemoteAddr |-> "172.17.0.2:41000",
     UserAgent |-> <<"Mozilla">>],
    [Host |-> RawHost("a", FALSE, FALSE), Path |-> "/favicon.ico",
     Header |-> RealIP("192.168.0.1"), RemoteAddr |-> "172.17.0.2:41000",
     UserAgent |-> <<"Mozilla">>],
    [Host |-> RawHost("b", FALSE, FALSE), Path |-> "/admin/secret",
     Header |-> RealIP("10.0.0.255"), RemoteAddr |-> "172.17.0.2:41000",
     UserAgent |-> <<"Mozilla", "Googlebot">>],
    [Host |-> RawHost("a", FALSE, FALSE), Path |-> "/",
     Header |-> RealIP("not-an-ip"), RemoteAddr |-> "172.17.0.2:41000",
     UserAgent |-> <<"Mozilla">>],
    [Host |-> RawHost("a", FALSE, FALSE), Path |-> "/",
     Header |-> NoHeader, RemoteAddr |-> "192.168.0.1:41000",
     UserAgent |-> <<"Mozilla">>],
    [Host |-> RawHost("a", FALSE, FALSE), Path |-> "/",
     Header |-> RealIP("10.0.0.255"), RemoteAddr |-> "172.17.0.2:41000",
     UserAgent |-> <<"Mozilla">>] }

StatusCodes == {200, 404}

\* strings.Split(host, ":")[0], TrimSuffix ".", ToLower
parseDomainFromHost(host) == host.name

(***************************************************************************)
(* Configuration.                                                          *)
(***************************************************************************)
EmptyMap == [h \in {} |-> ""]

\* the configuration of the README: a token, sites created on demand
BaseConfig ==
  [Enabled |-> TRUE, Disabled |-> FALSE,
   UmamiHost |-> "http://umami", UmamiToken |-> "token",
   UmamiUsername |-> "", UmamiPassword |-> "",
   Websites |-> EmptyMap, CreateNewWebsites |-> TRUE,
   IgnoreIPs |-> <<>>, IgnoreURLs |-> <<>>,
   IgnoreHosts |-> <<>>, IgnoreUserAgents |-> <<"Googlebot">>,
   TrackErrors |-> TRUE, TrackAllResources |-> FALSE, TrackExtensions |-> <<>>,
   HeaderIp |-> "X-Real-IP"]

StaticSites == [h \in {"a"} |-> "s1"]

Configs ==
  { BaseConfig,
    \* static mappings only, with ignore rules
    [BaseConfig EXCEPT !.UmamiToken = "", !.Websites = StaticSites,
                       !.CreateNewWebsites = FALSE,
                       !.IgnoreIPs = <<"127.0.0.1", "10.0.0.1/24">>,
                       !.IgnoreURLs = <<"^/admin">>,
                       !.IgnoreHosts = <<RawHost("b", FALSE, TRUE)>>],
    \* a login instead of a token, static mappings beside the fetched ones
    [BaseConfig EXCEPT !.UmamiToken = "", !.UmamiUsername = "admin",
                       !.UmamiPassword = "umami", !.Websites = StaticSites,
                       !.CreateNewWebsites = FALSE, !.TrackErrors = FALSE],
    \* a token, static mappings, and sites created on demand
    [BaseConfig EXCEPT !.Websites = StaticSites],
    \* administratively disabled
    [BaseConfig EXCEPT !.Enabled = FALSE],
    [BaseConfig EXCEPT !.Disabled = TRUE],
    \* no collector URL
    [BaseConfig EXCEPT !.UmamiHost = ""],
    \* neither a token nor static mappings
    [BaseConfig EXCEPT !.UmamiToken = "", !.CreateNewWebsites = FALSE],
    \* sites to be created, but no token
    [BaseConfig EXCEPT !.UmamiToken = "", !.Websites = StaticSites],
    \* an ignore-IP string that is no address and no prefix
    [BaseConfig EXCEPT !.IgnoreIPs = <<"10.0.0.1/24", "127.0.0.1-127.0.0.10">>],
    [BaseConfig EXCEPT !.UmamiToken = "", !.Websites = StaticSites,
                       !.CreateNewWebsites = FALSE,
                       !.IgnoreIPs = <<"127.0.0.1-127.0.0.10">>],
    \* an ignore-URL pattern that does not compile
    [BaseConfig EXCEPT !.IgnoreIPs = <<"127.0.0.1">>, !.IgnoreURLs = <<"^/admin", "(">>] }

(***************************************************************************)
(* The collector's answers, as seen through sendRequestAndParse: an error  *)
(* (transport error, non-2xx status, undecodable body) or the decoded value.*)
(***************************************************************************)
LoginResults ==
  { [err |-> TRUE, token |-> ""], [err |-> FALSE, token |-> ""],
    [err |-> FALSE, token |-> "login-token"] }

FetchResults ==
  { [err |-> TRUE, data |-> <<>>],
    [err |-> FALSE, data |-> <<>>],
    [err |-> FALSE, data |-> << [Domain |-> "a", ID |-> "r1"],
                                [Domain |-> "a", ID |-> "r2"],
                                [Domain |-> "b", ID |-> ""] >>] }

\* identifiers the collector gives to the sites it creates, in order of creation
CreatedIds == <<"c1", "c2", "c3", "c4", "c5", "c6">>

\* POST /api/websites {name, domain, teamId}: an error, or the created site
\* record: the domain that was sent and a fresh identifier (created: the number
\* of sites the collector has created so far)
createWebsite(websiteDomain, created) ==
  { [err |-> TRUE, Domain |-> "", ID |-> ""],
    [err |-> FALSE, Domain |-> websiteDomain, ID |-> CreatedIds[created + 1]] }

(***************************************************************************)
(* connect: one connection attempt.  token and sites are h.umamiToken and  *)
(* h.websites before the attempt; the result carries them after it.        *)
(***************************************************************************)
\* the fetched list written over the entries the cache already has
RECURSIVE MergeFetchedOverwrite(_, _)
MergeFetchedOverwrite(sites, data) ==
  IF data = <<>> THEN sites
  ELSE LET website == Head(data)
           next == [d \in DOMAIN sites \cup {website.Domain} |->
                     IF d = website.Domain THEN website.ID ELSE sites[d]]
       IN MergeFetchedOverwrite(next, Tail(data))

RECURSIVE MergeFetched(_, _)
MergeFetched(sites, data) ==
  IF data = <<>> THEN sites
  ELSE LET website == Head(data)
           next == IF website.Domain \in DOMAIN sites THEN sites
                   ELSE [d \in DOMAIN sites \cup {website.Domain} |->
                           IF d \in DOMAIN sites THEN sites[d] ELSE website.ID]
       IN MergeFetched(next, Tail(data))

connect(cfg, token, sites, login, fetch) ==
  IF cfg.UmamiHost = ""
  THEN [err |-> "umamiHost is not set", umamiToken |-> token, websites |-> sites]
  ELSE
    LET useLogin == cfg.UmamiUsername # "" /\ cfg.UmamiPassword # ""
        token2 == IF useLogin /\ ~login.err /\ login.token # "" THEN login.token ELSE token
    IN IF useLogin /\ login.err
       THEN [err |-> "failed to get token", umamiToken |-> token, websites |-> sites]
       ELSE IF useLogin /\ login.token = ""
       THEN [err |-> "retrieved token is empty", umamiToken |-> token, websites |-> sites]
       ELSE IF token2 = "" /\ DOMAIN sites = {}
       THEN [err |-> "either umamiToken or websites must be set",
             umamiToken |-> token2, websites |-> sites]
       ELSE IF token2 = "" /\ cfg.CreateNewWebsites
       THEN [err |-> "umamiToken is required to create new websites",
             umamiToken |-> token2, websites |-> sites]
       ELSE IF token2 # "" /\ fetch.err
       THEN [err |-> "failed to fetch websites", umamiToken |-> token2, websites |-> sites]
       ELSE IF token2 # ""
       THEN [err |-> "", umamiToken |-> token2, websites |-> MergeFetched(sites, fetch.data)]
       ELSE [err |-> "", umamiToken |-> token2, websites |-> sites]

(***************************************************************************)
(* verifyConfig: compile the ignore rules.                                 *)
(***************************************************************************)
PrefixTexts ==
  ("10.0.0.1/24" :> [addr |-> <<10, 0, 0, 1>>, bits |-> 24]) @@
  ("127.0.0.1/32" :> [addr |-> <<127, 0, 0, 1>>, bits |-> 32])

\* netip.ParsePrefix: "addr/bits" or an error
ParsePrefix(s) ==
  IF s \in DOMAIN PrefixTexts THEN [err |-> FALSE, prefix |-> PrefixTexts[s]]
  ELSE [err |-> TRUE, prefix |-> [addr |-> <<0, 0, 0, 0>>, bits |-> 0]]

ValidRegexps == {"^/admin", "/about", "world$"}

\* regexp.Compile
Compile(location) == [err |-> location \notin ValidRegexps, re |-> location]

RECURSIVE CompileIPs(_, _)
CompileIPs(ips, prefixes) ==
  IF ips = <<>> THEN [err |-> "", ignorePrefixes |-> prefixes]
  ELSE LET first == ParsePrefix(Head(ips))
           network == IF first.err THEN ParsePrefix(Head(ips) \o "/32") ELSE first
       IN IF network.err
          THEN [err |-> "invalid ignoreIP given", ignorePrefixes |-> prefixes]
          ELSE CompileIPs(Tail(ips), Append(prefixes, network.prefix))

RECURSIVE CompileURLs(_, _)
CompileURLs(urls, regexps) ==
  IF urls = <<>> THEN [err |-> "", ignoreRegexps |-> regexps]
  ELSE LET r == Compile(Head(urls))
       IN IF r.err
          THEN [err |-> "failed to compile ignoreURL", ignoreRegexps |-> regexps]
          ELSE CompileURLs(Tail(urls), Append(regexps, r.re))

\* verifyConfig dropping the errors its two loops meet
verifyConfigNoError(cfg, prefixes, regexps) ==
  [err |-> "",
   ignorePrefixes |-> CompileIPs(cfg.IgnoreIPs, prefixes).ignorePrefixes,
   ignoreRegexps |-> CompileURLs(cfg.IgnoreURLs, regexps).ignoreRegexps]

verifyConfig(cfg, prefixes, regexps) ==
  LET ips == CompileIPs(cfg.IgnoreIPs, prefixes)
  IN IF ips.err # ""
     THEN [err |-> ips.err, ignorePrefixes |-> ips.ignorePrefixes, ignoreRegexps |-> regexps]
     ELSE LET urls == CompileURLs(cfg.IgnoreURLs, regexps)
          IN [err |-> urls.err, ignorePrefixes |-> ips.ignorePrefixes,
              ignoreRegexps |-> urls.ignoreRegexps]

(***************************************************************************)
(* The matcher.                                                            *)
(***************************************************************************)
AddrTexts ==
  ("192.168.0.1" :> <<192, 168, 0, 1>>) @@ ("10.0.1.1" :> <<10, 0, 1, 1>>) @@
  ("10.0.0.255" :> <<10, 0, 0, 255>>) @@ ("127.0.0.1" :> <<127, 0, 0, 1>>)

\* netip.ParseAddr
ParseAddr(s) ==
  IF s \in DOMAIN AddrTexts THEN [err |-> FALSE, ip |-> AddrTexts[s]]
  ELSE [err |-> TRUE, ip |-> <<0, 0, 0, 0>>]

RECURSIVE Pow2(_)
Pow2(n) == IF n <= 0 THEN 1 ELSE 2 * Pow2(n - 1)

\* netip.Prefix.Contains: the first `bits` bits of both addresses agree
PrefixContains(prefix, ip) ==
  \A i \in 1..4 :
    LET rest == prefix.bits - 8 * (i - 1)
        nb == IF rest <= 0 THEN 0 ELSE IF rest >= 8 THEN 8 ELSE rest
    IN (prefix.addr[i] \div Pow2(8 - nb)) = (ip[i] \div Pow2(8 - nb))

\* strings.EqualFold(req.Host, disabledHost): whole string, case ignored
EqualFold(host, disabledHost) ==
  host.name = disabledHost.name /\ host.port = disabledHost.port

\* strings.Contains(userAgent, disabledUserAgent)
UserAgentContains(userAgent, pattern) ==
  \E i \in 1..Len(userAgent) : userAgent[i] = pattern

\* Regexp.MatchString on the request URL
RegexpMatches ==
  { <<"^/admin", "/admin/secret">>, <<"/about", "/about">> }

MatchString(r, url) == <<r, url>> \in RegexpMatches

\* http.Header.Get: the value of the header, "" when it is absent
HeaderGet(header, name) == IF name \in DOMAIN header THEN header[name] ELSE ""

\* requestIp := req.Header.Get(h.headerIp), or req.RemoteAddr when that is empty
requestIp(cfg, req) ==
  IF HeaderGet(req.Header, cfg.HeaderIp) = "" THEN req.RemoteAddr
  ELSE HeaderGet(req.Header, cfg.HeaderIp)

\* shouldTrackRequest tracking the request whose address does not parse
shouldTrackRequestNoParseCheck(cfg, prefixes, regexps, req) ==
  IF \E i \in 1..Len(cfg.IgnoreHosts) : EqualFold(req.Host, cfg.IgnoreHosts[i])
  THEN FALSE
  ELSE IF \E i \in 1..Len(prefixes) :
            /\ ~ParseAddr(requestIp(cfg, req)).err
            /\ PrefixContains(prefixes[i], ParseAddr(requestIp(cfg, req)).ip)
  THEN FALSE
  ELSE IF \E i \in 1..Len(cfg.IgnoreUserAgents) :
            UserAgentContains(req.UserAgent, cfg.IgnoreUserAgents[i])
  THEN FALSE
  ELSE IF \E i \in 1..Len(regexps) : MatchString(regexps[i], req.Path)
  THEN FALSE
  ELSE TRUE

\* shouldTrackRequest: host, client address, user agent, URL
shouldTrackRequest(cfg, prefixes, regexps, req) ==
  IF \E i \in 1..Len(cfg.IgnoreHosts) : EqualFold(req.Host, cfg.IgnoreHosts[i])
  THEN FALSE
  ELSE IF Len(prefixes) > 0 /\ ParseAddr(requestIp(cfg, req)).err
  THEN FALSE
  ELSE IF \E i \in 1..Len(prefixes) :
            PrefixContains(prefixes[i], ParseAddr(requestIp(cfg, req)).ip)
  THEN FALSE
  ELSE IF \E i \in 1..Len(cfg.IgnoreUserAgents) :
            UserAgentContains(req.UserAgent, cfg.IgnoreUserAgents[i])
  THEN FALSE
  ELSE IF \E i \in 1..Len(regexps) : MatchString(regexps[i], req.Path)
  THEN FALSE
  ELSE TRUE

\* path.Ext
PathExt(p) ==
  CASE p = "/products.html" -> ".html"
    [] p = "/favicon.ico" -> ".ico"
    [] OTHER -> ""

ContentExtensions ==
  {"", ".htm", ".html", ".xhtml", ".jsf", ".md", ".php", ".rss", ".rtf", ".txt",
   ".xml", ".pdf"}

shouldTrackResource(cfg, url) ==
  IF cfg.TrackAllResources THEN TRUE
  ELSE IF Len(cfg.TrackExtensions) > 0
  THEN \E i \in 1..Len(cfg.TrackExtensions) : cfg.TrackExtensions[i] = PathExt(url)
  ELSE PathExt(url) \in ContentExtensions

\* shouldTrack without the lookup of the hostname in the cache
shouldTrackNoLookup(cfg, prefixes, regexps, sites, req) ==
  IF ~shouldTrackRequest(cfg, prefixes, regexps, req) THEN FALSE
  ELSE shouldTrackResource(cfg, req.Path)

\* shouldTrack reading createNewWebsites the wrong way round
shouldTrackFlagInverted(cfg, prefixes, regexps, sites, req) ==
  IF ~shouldTrackRequest(cfg, prefixes, regexps, req) THEN FALSE
  ELSE IF ~shouldTrackResource(cfg, req.Path) THEN FALSE
  ELSE IF ~cfg.CreateNewWebsites THEN TRUE
  ELSE parseDomainFromHost(req.Host) \in DOMAIN sites

\* shouldTrack; the cache is read under the read lock
shouldTrack(cfg, prefixes, regexps, sites, req) ==
  IF ~shouldTrackRequest(cfg, prefixes, regexps, req) THEN FALSE
  ELSE IF ~shouldTrackResource(cfg, req.Path) THEN FALSE
  ELSE IF cfg.CreateNewWebsites THEN TRUE
  ELSE parseDomainFromHost(req.Host) \in DOMAIN sites

\* a status policy that lets every status code through
shouldTrackStatusAny(cfg, statusCode) == TRUE

shouldTrackStatus(cfg, statusCode) ==
  IF statusCode >= 400 THEN cfg.TrackErrors ELSE TRUE


(***************************************************************************)
(* State.                                                                  *)
(***************************************************************************)
VARIABLES
  config,          \* the *Config handed to New
  isEnabled,       \* h.isEnabled, the activation flag
  umamiToken,      \* h.umamiToken
  websites,        \* h.websites: hostname -> website id
  websitesMutex,   \* writer holding h.websitesMutex, or NoOwner
  ignorePrefixes,  \* h.ignorePrefixes
  ignoreRegexps,   \* h.ignoreRegexps
  retry,           \* the retryConnection goroutine: pc, retryAttempt, currentDelay, timer fired
  cancelled,       \* ctx.Done() is closed
  wk,              \* the request workers
  queue,           \* h.queue, the buffered channel
  feeder,          \* the startWorker goroutine: pc, batch, flush timer
  logged,          \* the messages the last step gave to h.error
  requests,        \* number of requests ServeHTTP has accepted
  createCalls,     \* history: POST /api/websites calls issued, per hostname
  createdOk,       \* history: those that succeeded, per hostname
  returned,        \* history: identifiers returned by getWebsiteId, per hostname
  lastReport,      \* the call of reportEventsToUmami the last step made
  enqueued,        \* history: events the queue has accepted
  started          \* history: go h.startWorker(ctx) statements executed

vars == <<config, isEnabled, umamiToken, websites, websitesMutex, ignorePrefixes,
          ignoreRegexps, retry, cancelled, wk, queue, feeder, logged,
          requests, createCalls, createdOk, returned, lastReport, enqueued,
          started>>

IdleWorker == [pc |-> "idle", host |-> RawHost("a", FALSE, FALSE),
               written |-> FALSE, statusCode |-> 0, websiteId |-> ""]

NoReport == [events |-> <<>>, case |-> "", sent |-> FALSE]

\* New: the plugin stays disabled until connection and verification are done
New(cfg) ==
  [isEnabled |-> FALSE,
   retry |-> [pc |-> IF cfg.Enabled /\ ~cfg.Disabled THEN "select" ELSE "off",
              retryAttempt |-> 0, currentDelay |-> 0, fired |-> TRUE]]

Init ==
  /\ config \in Configs
  /\ isEnabled = New(config).isEnabled
  /\ retry = New(config).retry
  /\ umamiToken = config.UmamiToken
  /\ websites = config.Websites
  /\ websitesMutex = NoOwner
  /\ ignorePrefixes = <<>>
  /\ ignoreRegexps = <<>>
  /\ cancelled = FALSE
  /\ wk = [w \in Workers |-> IdleWorker]
  /\ queue = <<>>
  /\ feeder = [pc |-> "idle", batch |-> <<>>, timer |-> 0, case |-> ""]
  /\ logged = <<>>
  /\ requests = 0
  /\ createCalls = [h \in Hostnames |-> 0]
  /\ createdOk = [h \in Hostnames |-> 0]
  /\ returned = [h \in Hostnames |-> {}]
  /\ lastReport = NoReport
  /\ enqueued = 0
  /\ started = 0

(***************************************************************************)
(* The connection/retry state machine.                                     *)
(***************************************************************************)
\* const maxRetryInterval = time.Hour, in seconds
maxRetryInterval == 3600

\* the exponential branch taken one attempt too long
currentDelayLateCap(retryAttempt) ==
  IF retryAttempt = 0 THEN 0
  ELSE IF retryAttempt <= 8 THEN 15 * Pow2(retryAttempt)
  ELSE maxRetryInterval

\* retryConnection, lines 349-354: the wait before the next attempt, in seconds
currentDelay(retryAttempt) ==
  IF retryAttempt = 0 THEN 0
  ELSE IF retryAttempt < 8 THEN 15 * Pow2(retryAttempt)
  ELSE maxRetryInterval

\* the top of the retry loop after retryAttempt attempts.  The counter stops at
\* MaxAttempts; from 8 on the delay no longer depends on it.
retryLoop(retryAttempt) ==
  LET n == IF retryAttempt < MaxAttempts THEN retryAttempt ELSE MaxAttempts
  IN [pc |-> "select", retryAttempt |-> n, currentDelay |-> currentDelay(n),
      fired |-> currentDelay(n) = 0]

\* go h.startWorker(ctx): umamiEventFeeder allocates the batch and arms the timer
startWorker == [pc |-> "select", batch |-> <<>>, timer |-> BatchMaxWait, case |-> ""]

\* retryConnection activating as soon as connect succeeded, whatever verifyConfig returned
retryConnectionNoVerify(login, fetch) ==
  /\ retry.pc = "select"
  /\ retry.fired
  /\ websitesMutex = NoOwner
  /\ cancelled => (login.err /\ fetch.err)
  /\ LET c == connect(config, umamiToken, websites, login, fetch)
         v == verifyConfig(config, ignorePrefixes, ignoreRegexps)
     IN /\ umamiToken' = c.umamiToken
        /\ websites' = c.websites
        /\ IF c.err # ""
           THEN /\ retry' = retryLoop(retry.retryAttempt + 1)
                /\ logged' = <<"Failed to reconnect to Umami: " \o c.err>>
                /\ UNCHANGED <<isEnabled, ignorePrefixes, ignoreRegexps, feeder, started>>
           ELSE /\ ignorePrefixes' = v.ignorePrefixes
                /\ ignoreRegexps' = v.ignoreRegexps
                /\ isEnabled' = TRUE
                /\ feeder' = startWorker
                /\ started' = started + 1
                /\ retry' = [pc |-> "active", retryAttempt |-> 0, currentDelay |-> 0, fired |-> FALSE]
                /\ logged' = <<>>
  /\ lastReport' = NoReport
  /\ UNCHANGED <<config, websitesMutex, cancelled, wk, queue, requests, createCalls,
                 createdOk, returned, enqueued>>

\* retryConnection giving up at the first error of connect
retryConnectionGivesUp(login, fetch) ==
  /\ retry.pc = "select"
  /\ retry.fired
  /\ websitesMutex = NoOwner
  /\ cancelled => (login.err /\ fetch.err)
  /\ LET c == connect(config, umamiToken, websites, login, fetch)
         v == verifyConfig(config, ignorePrefixes, ignoreRegexps)
     IN /\ umamiToken' = c.umamiToken
        /\ websites' = c.websites
        /\ IF c.err # ""
           THEN /\ retry' = [pc |-> "disabled", retryAttempt |-> 0, currentDelay |-> 0, fired |-> FALSE]
                /\ logged' = <<"Failed to reconnect to Umami: " \o c.err>>
                /\ UNCHANGED <<isEnabled, ignorePrefixes, ignoreRegexps, feeder, started>>
           ELSE /\ ignorePrefixes' = v.ignorePrefixes
                /\ ignoreRegexps' = v.ignoreRegexps
                /\ IF v.err = ""
                   THEN /\ isEnabled' = TRUE
                        /\ feeder' = startWorker
                        /\ started' = started + 1
                        /\ retry' = [pc |-> "active", retryAttempt |-> 0, currentDelay |-> 0, fired |-> FALSE]
                        /\ logged' = <<>>
                   ELSE /\ isEnabled' = FALSE
                        /\ logged' = <<"Configuration error, the plugin is disabled: " \o v.err>>
                        /\ retry' = [pc |-> "disabled", retryAttempt |-> 0, currentDelay |-> 0, fired |-> FALSE]
                        /\ UNCHANGED <<feeder, started>>
  /\ lastReport' = NoReport
  /\ UNCHANGED <<config, websitesMutex, cancelled, wk, queue, requests, createCalls,
                 createdOk, returned, enqueued>>

\* retryConnection making its attempt without waiting for time.After(currentDelay)
retryConnectionNoWait(login, fetch) ==
  /\ retry.pc = "select"
  /\ websitesMutex = NoOwner
  /\ cancelled => (login.err /\ fetch.err)
  /\ LET c == connect(config, umamiToken, websites, login, fetch)
         v == verifyConfig(config, ignorePrefixes, ignoreRegexps)
     IN /\ umamiToken' = c.umamiToken
        /\ websites' = c.websites
        /\ IF c.err # ""
           THEN /\ retry' = retryLoop(retry.retryAttempt + 1)
                /\ logged' = <<"Failed to reconnect to Umami: " \o c.err>>
                /\ UNCHANGED <<isEnabled, ignorePrefixes, ignoreRegexps, feeder, started>>
           ELSE /\ ignorePrefixes' = v.ignorePrefixes
                /\ ignoreRegexps' = v.ignoreRegexps
                /\ IF v.err = ""
                   THEN /\ isEnabled' = TRUE
                        /\ feeder' = startWorker
                        /\ started' = started + 1
                        /\ retry' = [pc |-> "active", retryAttempt |-> 0, currentDelay |-> 0, fired |-> FALSE]
                        /\ logged' = <<>>
                   ELSE /\ isEnabled' = FALSE
                        /\ logged' = <<"Configuration error, the plugin is disabled: " \o v.err>>
                        /\ retry' = [pc |-> "disabled", retryAttempt |-> 0, currentDelay |-> 0, fired |-> FALSE]
                        /\ UNCHANGED <<feeder, started>>
  /\ lastReport' = NoReport
  /\ UNCHANGED <<config, websitesMutex, cancelled, wk, queue, requests, createCalls,
                 createdOk, returned, enqueued>>

\* retryConnection going round its loop again after it started the worker
retryConnectionKeepsRetrying(login, fetch) ==
  /\ retry.pc = "select"
  /\ retry.fired
  /\ websitesMutex = NoOwner
  /\ cancelled => (login.err /\ fetch.err)
  /\ LET c == connect(config, umamiToken, websites, login, fetch)
         v == verifyConfig(config, ignorePrefixes, ignoreRegexps)
     IN /\ umamiToken' = c.umamiToken
        /\ websites' = c.websites
        /\ IF c.err # ""
           THEN /\ retry' = retryLoop(retry.retryAttempt + 1)
                /\ logged' = <<"Failed to reconnect to Umami: " \o c.err>>
                /\ UNCHANGED <<isEnabled, ignorePrefixes, ignoreRegexps, feeder, started>>
           ELSE /\ ignorePrefixes' = v.ignorePrefixes
                /\ ignoreRegexps' = v.ignoreRegexps
                /\ IF v.err = ""
                   THEN /\ isEnabled' = TRUE
                        /\ feeder' = startWorker
                        /\ started' = started + 1
                        /\ retry' = retryLoop(0)
                        /\ logged' = <<>>
                   ELSE /\ isEnabled' = FALSE
                        /\ logged' = <<"Configuration error, the plugin is disabled: " \o v.err>>
                        /\ retry' = [pc |-> "disabled", retryAttempt |-> 0, currentDelay |-> 0, fired |-> FALSE]
                        /\ UNCHANGED <<feeder, started>>
  /\ lastReport' = NoReport
  /\ UNCHANGED <<config, websitesMutex, cancelled, wk, queue, requests, createCalls,
                 createdOk, returned, enqueued>>

\* case <-time.After(currentDelay): one attempt, connect then verifyConfig.
\* A remote call made with a cancelled ctx fails.
retryConnection(login, fetch) ==
  /\ retry.pc = "select"
  /\ retry.fired
  /\ websitesMutex = NoOwner
  /\ cancelled => (login.err /\ fetch.err)
  /\ LET c == connect(config, umamiToken, websites, login, fetch)
         v == verifyConfig(config, ignorePrefixes, ignoreRegexps)
     IN /\ umamiToken' = c.umamiToken
        /\ websites' = c.websites
        /\ IF c.err # ""
           THEN /\ retry' = retryLoop(retry.retryAttempt + 1)
                /\ logged' = <<"Failed to reconnect to Umami: " \o c.err>>
                /\ UNCHANGED <<isEnabled, ignorePrefixes, ignoreRegexps, feeder, started>>
           ELSE /\ ignorePrefixes' = v.ignorePrefixes
                /\ ignoreRegexps' = v.ignoreRegexps
                /\ IF v.err = ""
                   THEN /\ isEnabled' = TRUE
                        /\ feeder' = startWorker
                        /\ started' = started + 1
                        /\ retry' = [pc |-> "active", retryAttempt |-> 0, currentDelay |-> 0, fired |-> FALSE]
                        /\ logged' = <<>>
                   ELSE /\ isEnabled' = FALSE
                        /\ logged' = <<"Configuration error, the plugin is disabled: " \o v.err>>
                        /\ retry' = [pc |-> "disabled", retryAttempt |-> 0, currentDelay |-> 0, fired |-> FALSE]
                        /\ UNCHANGED <<feeder, started>>
  /\ lastReport' = NoReport
  /\ UNCHANGED <<config, websitesMutex, cancelled, wk, queue, requests, createCalls,
                 createdOk, returned, enqueued>>

\* time.After(currentDelay) fires.  A closed ctx.Done() is served before time
\* moves on.
retryTimerFires ==
  /\ retry.pc = "select"
  /\ ~retry.fired
  /\ ~cancelled
  /\ retry' = [retry EXCEPT !.fired = TRUE]
  /\ logged' = <<>>
  /\ lastReport' = NoReport
  /\ UNCHANGED <<config, isEnabled, umamiToken, websites, websitesMutex, ignorePrefixes,
                 ignoreRegexps, cancelled, wk, queue, feeder, requests,
                 createCalls, createdOk, returned, enqueued, started>>

\* case <-ctx.Done(): stop retrying
retryCancelled ==
  /\ retry.pc = "select"
  /\ cancelled
  /\ retry' = [pc |-> "cancelled", retryAttempt |-> 0, currentDelay |-> 0, fired |-> FALSE]
  /\ logged' = <<>>
  /\ lastReport' = NoReport
  /\ UNCHANGED <<config, isEnabled, umamiToken, websites, websitesMutex, ignorePrefixes,
                 ignoreRegexps, cancelled, wk, queue, feeder, requests,
                 createCalls, createdOk, returned, enqueued, started>>

\* the context handed to New is cancelled
Cancel ==
  /\ ~cancelled
  /\ cancelled' = TRUE
  /\ logged' = <<>>
  /\ lastReport' = NoReport
  /\ UNCHANGED <<config, isEnabled, umamiToken, websites, websitesMutex, ignorePrefixes,
                 ignoreRegexps, retry, wk, queue, feeder, requests,
                 createCalls, createdOk, returned, enqueued, started>>


(***************************************************************************)
(* The request path: ServeHTTP, the response wrapper, submitToFeed and     *)
(* getWebsiteId.  A read-locked section is one step; the write lock is     *)
(* held across the steps of the create call.                               *)
(***************************************************************************)
connVars == <<config, isEnabled, umamiToken, ignorePrefixes, ignoreRegexps, retry,
              cancelled, started>>

hostnameOf(w) == parseDomainFromHost(wk[w].host)

\* the request workers are interchangeable goroutines: a request is given to the
\* first one that serves no request
WorkerOrder == <<"w1", "w2">>

FirstIdle ==
  LET idle == {i \in 1..Len(WorkerOrder) : wk[WorkerOrder[i]].pc = "idle"}
  IN IF idle = {} THEN NoOwner
     ELSE WorkerOrder[CHOOSE i \in idle : \A j \in idle : i <= j]

RECURSIVE Sum(_, _)
Sum(f, S) == IF S = {} THEN 0 ELSE LET x == CHOOSE y \in S : TRUE IN f[x] + Sum(f, S \ {x})

sitesCreated == Sum(createdOk, Hostnames)

\* ServeHTTP evaluating every request, whatever h.isEnabled is
ServeHTTPFlagNotRead(w, req) ==
  /\ wk[w].pc = "idle"
  /\ w = FirstIdle
  /\ requests < MaxRequests
  /\ requests' = requests + 1
  /\ LET readsCache == /\ TRUE
                       /\ shouldTrackRequest(config, ignorePrefixes, ignoreRegexps, req)
                       /\ shouldTrackResource(config, req.Path)
                       /\ ~config.CreateNewWebsites
         wrap == shouldTrack(config, ignorePrefixes, ignoreRegexps, websites, req)
     IN /\ readsCache => websitesMutex = NoOwner
        /\ wk' = [wk EXCEPT ![w] =
                   IF wrap THEN [IdleWorker EXCEPT !.pc = "handler", !.host = req.Host]
                   ELSE [IdleWorker EXCEPT !.pc = "plain"]]
  /\ logged' = <<>>
  /\ lastReport' = NoReport
  /\ UNCHANGED <<connVars, websites, websitesMutex, queue, feeder,
                 createCalls, createdOk, returned, enqueued>>

\* ServeHTTP: wrap the response writer when the request is to be tracked
ServeHTTP(w, req) ==
  /\ wk[w].pc = "idle"
  /\ w = FirstIdle
  /\ requests < MaxRequests
  /\ requests' = requests + 1
  /\ LET readsCache == /\ isEnabled
                       /\ shouldTrackRequest(config, ignorePrefixes, ignoreRegexps, req)
                       /\ shouldTrackResource(config, req.Path)
                       /\ ~config.CreateNewWebsites
         wrap == isEnabled /\ shouldTrack(config, ignorePrefixes, ignoreRegexps, websites, req)
     IN /\ readsCache => websitesMutex = NoOwner
        /\ wk' = [wk EXCEPT ![w] =
                   IF wrap THEN [IdleWorker EXCEPT !.pc = "handler", !.host = req.Host]
                   ELSE [IdleWorker EXCEPT !.pc = "plain"]]
  /\ logged' = <<>>
  /\ lastReport' = NoReport
  /\ UNCHANGED <<connVars, websites, websitesMutex, queue, feeder,
                 createCalls, createdOk, returned, enqueued>>

\* WriteHeader without the written flag: every status write is evaluated
WriteHeaderEveryTime(w, statusCode) ==
  /\ wk[w].pc = "handler"
  /\ wk' = [wk EXCEPT ![w] =
              IF shouldTrackStatus(config, statusCode)
              THEN [@ EXCEPT !.written = TRUE, !.pc = "getWebsiteId",
                             !.statusCode = statusCode]
              ELSE [@ EXCEPT !.written = TRUE]]
  /\ logged' = <<>>
  /\ lastReport' = NoReport
  /\ UNCHANGED <<connVars, websites, websitesMutex, queue, feeder,
                 requests, createCalls, createdOk, returned, enqueued>>

\* ResponseWrapper.WriteHeader up to the call of submitToFeed; a status that is
\* not tracked is forwarded at once
WriteHeader(w, statusCode) ==
  /\ wk[w].pc = "handler"
  /\ IF wk[w].written
     THEN UNCHANGED wk
     ELSE wk' = [wk EXCEPT ![w] =
                  IF shouldTrackStatus(config, statusCode)
                  THEN [@ EXCEPT !.written = TRUE, !.pc = "getWebsiteId",
                                 !.statusCode = statusCode]
                  ELSE [@ EXCEPT !.written = TRUE]]
  /\ logged' = <<>>
  /\ lastReport' = NoReport
  /\ UNCHANGED <<connVars, websites, websitesMutex, queue, feeder,
                 requests, createCalls, createdOk, returned, enqueued>>

\* ResponseWrapper.Write: rw.WriteHeader(http.StatusOK), then the body
Write(w) == WriteHeader(w, 200)

\* submitToFeed going on to build and send the event whatever getWebsiteId returned
submitResolvedNoCheck(w, websiteId, failed) ==
  /\ returned' = [returned EXCEPT ![hostnameOf(w)] = @ \cup {websiteId}]
  /\ wk' = [wk EXCEPT ![w].pc = "enqueue", ![w].websiteId = websiteId]
  /\ logged' = IF failed THEN <<"failed to create website">> ELSE <<>>

\* submitToFeed after getWebsiteId has returned websiteId; without an identifier
\* it returns and WriteHeader forwards the status
submitResolved(w, websiteId, failed) ==
  /\ returned' = [returned EXCEPT ![hostnameOf(w)] = @ \cup {websiteId}]
  /\ IF websiteId = ""
     THEN /\ wk' = [wk EXCEPT ![w].pc = "handler", ![w].statusCode = 0]
          /\ logged' = IF failed THEN <<"failed to create website", "tracking skipped, websiteId is unknown">>
                       ELSE <<"tracking skipped, websiteId is unknown">>
     ELSE /\ wk' = [wk EXCEPT ![w].pc = "enqueue", ![w].websiteId = websiteId]
          /\ logged' = <<>>

\* getWebsiteId, lines 61-67: the read-locked lookup
getWebsiteIdRead(w) ==
  /\ wk[w].pc = "getWebsiteId"
  /\ websitesMutex = NoOwner
  /\ IF hostnameOf(w) \in DOMAIN websites
     THEN submitResolved(w, websites[hostnameOf(w)], FALSE)
     ELSE /\ wk' = [wk EXCEPT ![w].pc = "lock"]
          /\ logged' = <<>>
          /\ UNCHANGED returned
  /\ lastReport' = NoReport
  /\ UNCHANGED <<connVars, websites, websitesMutex, queue, feeder, requests, createCalls,
                 createdOk, enqueued>>

\* getWebsiteIdLock without the second lookup under the write lock
getWebsiteIdLockNoRecheck(w) ==
  /\ wk[w].pc = "lock"
  /\ websitesMutex = NoOwner
  /\ websitesMutex' = w
  /\ createCalls' = [createCalls EXCEPT ![hostnameOf(w)] = @ + 1]
  /\ wk' = [wk EXCEPT ![w].pc = "creating"]
  /\ logged' = <<>>
  /\ lastReport' = NoReport
  /\ UNCHANGED <<connVars, websites, queue, feeder, requests, createdOk, returned,
                 enqueued>>

\* getWebsiteId, lines 69-81: take the write lock, check again, start the create call
getWebsiteIdLock(w) ==
  /\ wk[w].pc = "lock"
  /\ websitesMutex = NoOwner
  /\ IF hostnameOf(w) \in DOMAIN websites
     THEN /\ submitResolved(w, websites[hostnameOf(w)], FALSE)
          /\ UNCHANGED <<websitesMutex, createCalls>>
     ELSE /\ websitesMutex' = w
          /\ createCalls' = [createCalls EXCEPT ![hostnameOf(w)] = @ + 1]
          /\ wk' = [wk EXCEPT ![w].pc = "creating"]
          /\ logged' = <<>>
          /\ UNCHANGED returned
  /\ lastReport' = NoReport
  /\ UNCHANGED <<connVars, websites, queue, feeder, requests, createdOk, enqueued>>

\* the created site stored in a map of its own, the earlier entries lost
getWebsiteIdCreatedEvicts(w, website) ==
  /\ wk[w].pc = "creating"
  /\ websitesMutex = w
  /\ websitesMutex' = NoOwner
  /\ IF website.err
     THEN /\ submitResolved(w, "", TRUE)
          /\ UNCHANGED <<websites, createdOk>>
     ELSE /\ websites' = [d \in {website.Domain} |-> website.ID]
          /\ createdOk' = [createdOk EXCEPT ![hostnameOf(w)] = @ + 1]
          /\ submitResolved(w, website.ID, FALSE)
  /\ lastReport' = NoReport
  /\ UNCHANGED <<connVars, queue, feeder, requests, createCalls, enqueued>>

\* a failed create call remembered in the cache as an empty identifier
getWebsiteIdCreatedCachesFailure(w, website) ==
  /\ wk[w].pc = "creating"
  /\ websitesMutex = w
  /\ websitesMutex' = NoOwner
  /\ IF website.err
     THEN /\ submitResolved(w, "", TRUE)
          /\ websites' = [d \in DOMAIN websites \cup {hostnameOf(w)} |->
                            IF d = hostnameOf(w) THEN "" ELSE websites[d]]
          /\ UNCHANGED createdOk
     ELSE /\ websites' = [d \in DOMAIN websites \cup {website.Domain} |->
                            IF d = website.Domain THEN website.ID ELSE websites[d]]
          /\ createdOk' = [createdOk EXCEPT ![hostnameOf(w)] = @ + 1]
          /\ submitResolved(w, website.ID, FALSE)
  /\ lastReport' = NoReport
  /\ UNCHANGED <<connVars, queue, feeder, requests, createCalls, enqueued>>

\* getWebsiteId, lines 81-89: the create call returns; the deferred Unlock runs
getWebsiteIdCreated(w, website) ==
  /\ wk[w].pc = "creating"
  /\ websitesMutex = w
  /\ websitesMutex' = NoOwner
  /\ IF website.err
     THEN /\ submitResolved(w, "", TRUE)
          /\ UNCHANGED <<websites, createdOk>>
     ELSE /\ websites' = [d \in DOMAIN websites \cup {website.Domain} |->
                            IF d = website.Domain THEN website.ID ELSE websites[d]]
          /\ createdOk' = [createdOk EXCEPT ![hostnameOf(w)] = @ + 1]
          /\ submitResolved(w, website.ID, FALSE)
  /\ lastReport' = NoReport
  /\ UNCHANGED <<connVars, queue, feeder, requests, createCalls, enqueued>>

\* a send that has no default case and a channel that takes every event
sendUnbounded(q, event) == [queue |-> Append(q, event), sent |-> TRUE]

\* select { case h.queue <- event: default: }
send(q, event) ==
  IF Len(q) < QueueSize THEN [queue |-> Append(q, event), sent |-> TRUE]
  ELSE [queue |-> q, sent |-> FALSE]

\* submitToFeed, lines 40-75: build the event and offer it to the queue; then
\* WriteHeader forwards the status to the wrapped writer
submitToFeed(w) ==
  /\ wk[w].pc = "enqueue"
  /\ LET event == [Website |-> wk[w].websiteId, Hostname |-> hostnameOf(w),
                   seq |-> enqueued + 1]
         r == send(queue, event)
     IN /\ queue' = r.queue
        /\ enqueued' = IF r.sent THEN enqueued + 1 ELSE enqueued
        /\ logged' = IF r.sent THEN <<>> ELSE <<"failed to submit event: queue full">>
  /\ wk' = [wk EXCEPT ![w].pc = "handler", ![w].statusCode = 0, ![w].websiteId = ""]
  /\ lastReport' = NoReport
  /\ UNCHANGED <<connVars, websites, websitesMutex, feeder, requests, createCalls,
                 createdOk, returned>>

\* h.next.ServeHTTP returns
handlerReturns(w) ==
  /\ wk[w].pc \in {"handler", "plain"}
  /\ wk' = [wk EXCEPT ![w] = IdleWorker]
  /\ logged' = <<>>
  /\ lastReport' = NoReport
  /\ UNCHANGED <<connVars, websites, websitesMutex, queue, feeder,
                 requests, createCalls, createdOk, returned, enqueued>>


(***************************************************************************)
(* The batch dispatcher.  feeder.timer is the time left until timeout.C    *)
(* becomes ready (0: ready); each batch element carries the time since it  *)
(* was appended.                                                           *)
(***************************************************************************)
reqVars == <<websites, websitesMutex, wk, requests, createCalls, createdOk, returned,
             enqueued>>

MaxAge == BatchMaxWait + 1

Events(batch) == [i \in 1..Len(batch) |-> batch[i].ev]

\* reportEventsToUmami: POST /api/batch with ctx.  sendRequest hands ctx to the
\* HTTP client, which sends nothing and returns the context's error once ctx is done.
reportEventsToUmami(events, case) ==
  [events |-> events, case |-> case, sent |-> ~cancelled]

\* timeout.Reset(h.batchMaxWait).  When the timer expired and its channel was not
\* received from, the expiry may still be delivered after the Reset (timers before
\* Go 1.23) or is discarded (since Go 1.23).
timerReset(f) ==
  IF f.timer = 0 /\ f.case = "event" THEN {0, BatchMaxWait} ELSE {BatchMaxWait}

\* the event case putting the received event in front of the batch
feederEventPrepends ==
  /\ feeder.pc = "select"
  /\ queue # <<>>
  /\ queue' = Tail(queue)
  /\ LET batch == <<[ev |-> Head(queue), age |-> 0]>> \o feeder.batch
         call == reportEventsToUmami(Events(batch), "event")
     IN IF Len(batch) >= BatchSize
        THEN /\ lastReport' = call
             /\ IF call.sent
                THEN /\ feeder' = [feeder EXCEPT !.pc = "reporting", !.batch = batch,
                                                 !.case = "event"]
                     /\ logged' = <<>>
                ELSE /\ \E t \in timerReset([feeder EXCEPT !.case = "event"]) :
                          feeder' = [feeder EXCEPT !.batch = <<>>, !.timer = t, !.case = ""]
                     /\ logged' = <<"failed to send tracking">>
        ELSE /\ feeder' = [feeder EXCEPT !.batch = batch]
             /\ logged' = <<>> /\ lastReport' = NoReport
  /\ UNCHANGED <<connVars, reqVars>>

\* the event case reporting only a batch that has grown beyond batchSize
feederEventLateFlush ==
  /\ feeder.pc = "select"
  /\ queue # <<>>
  /\ queue' = Tail(queue)
  /\ LET batch == Append(feeder.batch, [ev |-> Head(queue), age |-> 0])
         call == reportEventsToUmami(Events(batch), "event")
     IN IF Len(batch) > BatchSize
        THEN /\ lastReport' = call
             /\ IF call.sent
                THEN /\ feeder' = [feeder EXCEPT !.pc = "reporting", !.batch = batch,
                                                 !.case = "event"]
                     /\ logged' = <<>>
                ELSE /\ \E t \in timerReset([feeder EXCEPT !.case = "event"]) :
                          feeder' = [feeder EXCEPT !.batch = <<>>, !.timer = t, !.case = ""]
                     /\ logged' = <<"failed to send tracking">>
        ELSE /\ feeder' = [feeder EXCEPT !.batch = batch]
             /\ logged' = <<>> /\ lastReport' = NoReport
  /\ UNCHANGED <<connVars, reqVars>>

\* umamiEventFeeder, case event := <-h.queue
feederEvent ==
  /\ feeder.pc = "select"
  /\ queue # <<>>
  /\ queue' = Tail(queue)
  /\ LET batch == Append(feeder.batch, [ev |-> Head(queue), age |-> 0])
         call == reportEventsToUmami(Events(batch), "event")
     IN IF Len(batch) >= BatchSize
        THEN /\ lastReport' = call
             /\ IF call.sent
                THEN /\ feeder' = [feeder EXCEPT !.pc = "reporting", !.batch = batch,
                                                 !.case = "event"]
                     /\ logged' = <<>>
                ELSE /\ \E t \in timerReset([feeder EXCEPT !.case = "event"]) :
                          feeder' = [feeder EXCEPT !.batch = <<>>, !.timer = t, !.case = ""]
                     /\ logged' = <<"failed to send tracking">>
        ELSE /\ feeder' = [feeder EXCEPT !.batch = batch]
             /\ logged' = <<>> /\ lastReport' = NoReport
  /\ UNCHANGED <<connVars, reqVars>>

\* the timeout case re-arming the timer without reporting the batch
feederTimeoutNoFlush ==
  /\ feeder.pc = "select"
  /\ feeder.timer = 0
  /\ feeder' = [feeder EXCEPT !.timer = BatchMaxWait]
  /\ logged' = <<>>
  /\ lastReport' = NoReport
  /\ UNCHANGED <<connVars, reqVars, queue>>

\* umamiEventFeeder, case <-timeout.C
feederTimeout ==
  /\ feeder.pc = "select"
  /\ feeder.timer = 0
  /\ LET call == reportEventsToUmami(Events(feeder.batch), "timeout")
     IN IF Len(feeder.batch) > 0
        THEN /\ lastReport' = call
             /\ IF call.sent
                THEN /\ feeder' = [feeder EXCEPT !.pc = "reporting", !.case = "timeout"]
                     /\ logged' = <<>>
                ELSE /\ feeder' = [feeder EXCEPT !.batch = <<>>, !.timer = BatchMaxWait,
                                                 !.case = ""]
                     /\ logged' = <<"failed to send tracking">>
        ELSE /\ feeder' = [feeder EXCEPT !.timer = BatchMaxWait]
             /\ logged' = <<>> /\ lastReport' = NoReport
  /\ UNCHANGED <<connVars, reqVars, queue>>

\* the loop keeping the batch of a failed call for the next call
feederReportedKeepsBatch(ok) ==
  /\ feeder.pc = "reporting"
  /\ \E t \in timerReset(feeder) :
       feeder' = [pc |-> "select", batch |-> IF ok THEN <<>> ELSE feeder.batch,
                  timer |-> t, case |-> ""]
  /\ logged' = IF ok THEN <<>> ELSE <<"failed to send tracking">>
  /\ lastReport' = NoReport
  /\ UNCHANGED <<connVars, reqVars, queue>>

\* reportEventsToUmami returns to the loop: a new batch, the timer reset
feederReported(ok) ==
  /\ feeder.pc = "reporting"
  /\ \E t \in timerReset(feeder) :
       feeder' = [pc |-> "select", batch |-> <<>>, timer |-> t, case |-> ""]
  /\ logged' = IF ok THEN <<>> ELSE <<"failed to send tracking">>
  /\ lastReport' = NoReport
  /\ UNCHANGED <<connVars, reqVars, queue>>

\* the dispatcher switching the plugin off when it returns at ctx.Done()
feederCancelledDisables ==
  /\ feeder.pc = "select"
  /\ cancelled
  /\ LET call == reportEventsToUmami(Events(feeder.batch), "done")
     IN IF Len(feeder.batch) > 0
        THEN /\ lastReport' = call
             /\ logged' = IF call.sent THEN <<>> ELSE <<"failed to send tracking">>
        ELSE logged' = <<>> /\ lastReport' = NoReport
  /\ feeder' = [pc |-> "exited", batch |-> <<>>, timer |-> 0, case |-> "done"]
  /\ isEnabled' = FALSE
  /\ UNCHANGED <<config, umamiToken, ignorePrefixes, ignoreRegexps, retry, cancelled,
                 started, reqVars, queue>>

\* umamiEventFeeder, case <-ctx.Done(): the last report, then return nil
feederCancelled ==
  /\ feeder.pc = "select"
  /\ cancelled
  /\ LET call == reportEventsToUmami(Events(feeder.batch), "done")
     IN IF Len(feeder.batch) > 0
        THEN /\ lastReport' = call
             /\ logged' = IF call.sent THEN <<>> ELSE <<"failed to send tracking">>
        ELSE logged' = <<>> /\ lastReport' = NoReport
  /\ feeder' = [pc |-> "exited", batch |-> <<>>, timer |-> 0, case |-> "done"]
  /\ UNCHANGED <<connVars, reqVars, queue>>

\* the value umamiEventFeeder returns when its deferred recover() caught a panic:
\* the result is unnamed and the deferred function does not set it
recoveredResult == "nil"

\* startWorker: run umamiEventFeeder again when it returned an error, else return
startWorkerLoop(err) ==
  IF err # "nil"
  THEN [pc |-> "select", batch |-> <<>>, timer |-> BatchMaxWait, case |-> ""]
  ELSE [pc |-> "exited", batch |-> <<>>, timer |-> 0, case |-> "panic"]

\* a runtime fault inside the loop: recovered and logged by the deferred function
feederPanic ==
  /\ feeder.pc \in {"select", "reporting"}
  /\ logged' = <<"panic">>
  /\ feeder' = startWorkerLoop(recoveredResult)
  /\ lastReport' = NoReport
  /\ UNCHANGED <<connVars, reqVars, queue>>

\* one unit of time passes.  A ready timeout.C is served before time moves on.
Tick ==
  /\ feeder.pc \in {"select", "reporting"}
  /\ feeder.timer > 0
  /\ feeder' = [feeder EXCEPT
       !.timer = @ - 1,
       !.batch = IF feeder.pc = "select"
                 THEN [i \in 1..Len(@) |->
                         [@[i] EXCEPT !.age = IF @ < MaxAge THEN @ + 1 ELSE @]]
                 ELSE @]
  /\ logged' = <<>>
  /\ lastReport' = NoReport
  /\ UNCHANGED <<connVars, reqVars, queue>>

Next ==
  \/ \E login \in LoginResults, fetch \in FetchResults : retryConnection(login, fetch)
  \/ retryTimerFires
  \/ retryCancelled
  \/ Cancel
  \/ \E w \in Workers, req \in Requests : ServeHTTP(w, req)
  \/ \E w \in Workers, statusCode \in StatusCodes : WriteHeader(w, statusCode)
  \/ \E w \in Workers : Write(w)
  \/ \E w \in Workers : getWebsiteIdRead(w)
  \/ \E w \in Workers : getWebsiteIdLock(w)
  \/ \E w \in Workers : \E website \in createWebsite(hostnameOf(w), sitesCreated) :
       getWebsiteIdCreated(w, website)
  \/ \E w \in Workers : submitToFeed(w)
  \/ \E w \in Workers : handlerReturns(w)
  \/ feederEvent
  \/ feederTimeout
  \/ \E ok \in BOOLEAN : feederReported(ok)
  \/ feederCancelled
  \/ feederPanic
  \/ Tick

Spec == Init /\ [][Next]_vars

\* time.After(currentDelay) fires after a finite wait and the retry goroutine is
\* then scheduled: the case of its select that stays ready is taken
FairSpec ==
  /\ Spec
  /\ WF_vars(retryTimerFires)
  /\ WF_vars(\E login \in LoginResults, fetch \in FetchResults : retryConnection(login, fetch))
  /\ WF_vars(retryCancelled)

(***************************************************************************)
(* Properties.                                                             *)
(***************************************************************************)

\* C1 (as claimed): for every hostname at most one create-site call is issued
\* over the whole run, and all calls of getWebsiteId for it return the same
\* identifier.
C1_OneCreateCallSameId ==
  \A h \in Hostnames : createCalls[h] <= 1 /\ Cardinality(returned[h]) <= 1

\* C1 (amended): for every hostname at most one create-site call succeeds (a
\* failed call leaves the hostname uncached and a later call creates again),
\* create calls never overlap, and all calls of getWebsiteId for the hostname
\* that return an identifier return the same one.
C1_OneCreatedSameId ==
  /\ \A h \in Hostnames : createdOk[h] <= 1 /\ Cardinality(returned[h] \ {""}) <= 1
  /\ Cardinality({w \in Workers : wk[w].pc = "creating"}) <= 1

\* two workers resolved the same uncached hostname at the same time: one create
\* call, one identifier
C1_Witness ==
  \E w1, w2 \in Workers :
    /\ w1 # w2
    /\ wk[w1].pc = "enqueue" /\ wk[w2].pc = "enqueue"
    /\ hostnameOf(w1) = hostnameOf(w2)
    /\ wk[w1].websiteId = wk[w2].websiteId
    /\ createCalls[hostnameOf(w1)] = 1 /\ createdOk[hostnameOf(w1)] = 1

\* C2: the send at the end of submitToFeed never blocks (it is enabled whenever a
\* worker has reached it), the queue never holds more than QueueSize events, and
\* an event offered to a full queue is dropped with an error logged.
C2_EnqueueNeverBlocks ==
  /\ [](Len(queue) <= QueueSize)
  /\ [](\A w \in Workers : wk[w].pc = "enqueue" => ENABLED submitToFeed(w))
  /\ [][\A w \in Workers :
          (submitToFeed(w) /\ Len(queue) >= QueueSize) =>
             /\ queue' = queue
             /\ logged' = <<"failed to submit event: queue full">>
             /\ wk'[w].pc = "handler"]_vars

\* an event was just dropped at a full queue
C2_Witness ==
  /\ Len(queue) = QueueSize
  /\ logged = <<"failed to submit event: queue full">>

\* C3: while the dispatcher runs, no event stays in the batch, unreported, for
\* longer than BatchMaxWait after it was appended.
C3_FlushedWithinMaxWait ==
  feeder.pc = "select" =>
    \A i \in 1..Len(feeder.batch) : feeder.batch[i].age <= BatchMaxWait

\* the timer reported a batch smaller than BatchSize while no further event had arrived
C3_Witness ==
  /\ lastReport.case = "timeout" /\ lastReport.sent
  /\ Len(lastReport.events) < BatchSize
  /\ queue = <<>>
  /\ \A w \in Workers : wk[w].pc \in {"idle", "handler"} /\ (wk[w].pc = "handler" => wk[w].written)
  /\ ~cancelled

\* C4 (as claimed): when the dispatcher takes the cancellation case with a
\* non-empty batch, it makes one final submit-batch call that carries exactly
\* that batch to the collector, then terminates; nothing is reported afterwards.
C4_FinalFlushCarriesBatch ==
  /\ [][(feederCancelled /\ feeder.batch # <<>>) =>
          /\ lastReport' = [events |-> Events(feeder.batch), case |-> "done", sent |-> TRUE]
          /\ feeder'.pc = "exited"]_vars
  /\ [][feeder.pc = "exited" => (feeder'.pc = "exited" /\ lastReport' = NoReport)]_vars

\* C5 (as claimed): a panic inside the dispatch loop is caught and logged and the
\* dispatch loop is started again.
C5_LoopRestartedAfterPanic ==
  [][feederPanic => (logged' = <<"panic">> /\ feeder'.pc = "select")]_vars

\* C6 (as claimed): between the arrival of a request and the forwarding of its
\* status write, the request worker performs no remote call and does not wait
\* for another worker's remote call.
C6_HandlerNeverWaitsOnRemoteCall ==
  \A w \in Workers :
    /\ wk[w].pc # "creating"
    /\ ~(wk[w].pc \in {"getWebsiteId", "lock"} /\ websitesMutex \notin {NoOwner, w})

\* C7 (as claimed): a lookup for a cached hostname makes no remote call and is
\* never kept waiting while another worker holds the exclusive lock during a
\* create call for a different hostname.
C7_CachedLookupNeverWaits ==
  \A w \in Workers :
    (wk[w].pc = "getWebsiteId" /\ hostnameOf(w) \in DOMAIN websites) =>
       /\ ENABLED getWebsiteIdRead(w)
       /\ ~\E o \in Workers \ {w} :
             /\ websitesMutex = o /\ wk[o].pc = "creating"
             /\ hostnameOf(o) # hostnameOf(w)

\* C8: the flag is false at construction; it changes only from false to true, in
\* a retryConnection step whose connect and verifyConfig both returned no error,
\* and that step is the only one that starts the dispatcher.
C8_ActivatedOnlyAfterConnectAndVerify ==
  /\ ~isEnabled /\ feeder.pc = "idle"
  /\ [][(isEnabled' # isEnabled \/ (feeder.pc = "idle" /\ feeder'.pc # "idle")) =>
          /\ ~isEnabled /\ isEnabled'
          /\ feeder.pc = "idle" /\ feeder' = startWorker
          /\ \E login \in LoginResults, fetch \in FetchResults :
               /\ retryConnection(login, fetch)
               /\ connect(config, umamiToken, websites, login, fetch).err = ""
               /\ verifyConfig(config, ignorePrefixes, ignoreRegexps).err = ""]_vars

\* the instance was activated and its dispatcher is running
C8_Witness ==
  /\ isEnabled /\ retry.pc = "active"
  /\ feeder.pc = "select"

\* an ignore rule that does not parse: neither a prefix nor an address, or a
\* pattern that does not compile
InvalidIgnoreRule(cfg) ==
  \/ \E i \in 1..Len(cfg.IgnoreIPs) :
       ParsePrefix(cfg.IgnoreIPs[i]).err /\ ParsePrefix(cfg.IgnoreIPs[i] \o "/32").err
  \/ \E i \in 1..Len(cfg.IgnoreURLs) : Compile(cfg.IgnoreURLs[i]).err

\* C9: with an invalid ignore-IP or ignore-URL rule in the configuration the
\* instance is never active and its dispatcher never starts; once verification
\* has failed the flag stays false and the retry loop makes no further step.
C9_InvalidIgnoreRuleNeverActive ==
  /\ [](InvalidIgnoreRule(config) => (~isEnabled /\ retry.pc # "active" /\ feeder.pc = "idle"))
  /\ [](retry.pc = "disabled" => (~isEnabled /\ feeder.pc = "idle"))
  /\ [][retry.pc = "disabled" =>
          /\ retry' = retry /\ isEnabled' = isEnabled
          /\ umamiToken' = umamiToken /\ websites' = websites]_vars

\* verification failed on an invalid rule after a successful connect, and a
\* request has since been served unwrapped
C9_Witness ==
  /\ InvalidIgnoreRule(config)
  /\ retry.pc = "disabled"
  /\ \E w \in Workers : wk[w].pc = "plain"

\* the errors of connect that no later attempt can repair
PermanentConnectErrors ==
  { "umamiHost is not set",
    "either umamiToken or websites must be set",
    "umamiToken is required to create new websites" }

\* C10 (as claimed): a connection attempt that ends in a permanent configuration
\* error moves the retry loop to disabled, and no further attempt is made.
C10_PermanentErrorDisables ==
  [][\A login \in LoginResults, fetch \in FetchResults :
       (/\ retryConnection(login, fetch)
        /\ connect(config, umamiToken, websites, login, fetch).err \in PermanentConnectErrors)
       => retry'.pc = "disabled"]_vars

\* the errors of connect that depend on what the collector answered
TransientConnectErrors ==
  { "failed to get token", "retrieved token is empty", "failed to fetch websites" }

\* the last step was a connection attempt that failed
ReconnectFailed ==
  logged \in { <<"Failed to reconnect to Umami: " \o e>> :
                 e \in TransientConnectErrors \cup PermanentConnectErrors }

\* a configuration that is administratively enabled and whose ignore rules compile
ActivatableConfig(cfg) == cfg.Enabled /\ ~cfg.Disabled /\ ~InvalidIgnoreRule(cfg)

\* C11: a connection attempt that fails with a transient error leaves the retry
\* loop connecting with the flag false and one more attempt counted; and, the
\* configuration being valid and the context never cancelled, if from some point
\* on no attempt fails then the instance is eventually active.
C11_TransientFailureRetried ==
  /\ [][\A login \in LoginResults, fetch \in FetchResults :
          (/\ retryConnection(login, fetch)
           /\ connect(config, umamiToken, websites, login, fetch).err
                 \in TransientConnectErrors)
          => /\ retry'.pc = "select" /\ ~isEnabled'
             /\ retry'.retryAttempt > retry.retryAttempt
                  \/ retry'.retryAttempt = MaxAttempts
             /\ feeder' = feeder]_vars
  /\ (ActivatableConfig(config) /\ []~cancelled /\ <>[]~ReconnectFailed) => <>isEnabled

\* two attempts have failed, the last one on the site-list fetch, and the retry
\* loop is waiting for the third
C11_Witness ==
  /\ retry.pc = "select" /\ retry.retryAttempt = 2 /\ retry.currentDelay = 60
  /\ logged = <<"Failed to reconnect to Umami: failed to fetch websites">>
  /\ ~isEnabled /\ ActivatableConfig(config) /\ ~cancelled

\* the positions of a request worker inside getWebsiteId
Resolving == {"getWebsiteId", "lock", "creating"}

\* C12: every event in the queue, and every event about to be sent to it or
\* taken from it into the batch, carries a non-empty site identifier; a
\* resolution that yields no identifier ends the submission with the queue
\* unchanged and "tracking skipped" logged.
C12_NoEmptySiteIdEnqueued ==
  /\ [](/\ \A i \in 1..Len(queue) : queue[i].Website # ""
        /\ \A i \in 1..Len(feeder.batch) : feeder.batch[i].ev.Website # ""
        /\ \A w \in Workers : wk[w].pc = "enqueue" => wk[w].websiteId # "")
  /\ [][\A w \in Workers :
          (wk[w].pc \in Resolving /\ wk'[w].pc \notin Resolving) =>
             IF wk'[w].pc = "enqueue"
             THEN /\ hostnameOf(w) \in DOMAIN websites'
                  /\ wk'[w].websiteId = websites'[hostnameOf(w)]
                  /\ wk'[w].websiteId # ""
             ELSE /\ wk'[w].pc = "handler"
                  /\ queue' = queue
                  /\ logged'[Len(logged')] = "tracking skipped, websiteId is unknown"]_vars

\* the cache holds an empty identifier for a hostname, a request for it was
\* resolved to that identifier and dropped, and nothing was queued
C12_Witness ==
  \E w \in Workers :
    /\ hostnameOf(w) \in DOMAIN websites /\ websites[hostnameOf(w)] = ""
    /\ wk[w].pc = "handler" /\ wk[w].written
    /\ "" \in returned[hostnameOf(w)]
    /\ logged = <<"tracking skipped, websiteId is unknown">>
    /\ queue = <<>>

\* C13: a hostname of the static configuration mapping is in the cache with the
\* statically configured identifier in every reachable state.
C13_StaticMappingKept ==
  \A h \in DOMAIN config.Websites :
    h \in DOMAIN websites /\ websites[h] = config.Websites[h]

\* the statically mapped hostname was also in the fetched site list (which put
\* "b" into the cache), and a request for the static hostname is resolved
C13_Witness ==
  /\ "a" \in DOMAIN config.Websites
  /\ "b" \in DOMAIN websites /\ websites["b"] = ""
  /\ isEnabled
  /\ \E w \in Workers : /\ wk[w].pc = "enqueue" /\ hostnameOf(w) = "a"
                        /\ wk[w].websiteId = config.Websites["a"]

\* C14: for a wrapped request submitToFeed is entered only by the first status
\* write (explicit, or the 200 of the first Write), the written flag then stays
\* set until the handler returns, and a later status write changes nothing: no
\* second evaluation, no further event.
C14_StatusEvaluatedOnce ==
  [][\A w \in Workers :
       /\ (wk[w].pc \notin Resolving /\ wk'[w].pc \in Resolving) =>
             (wk[w].pc = "handler" /\ ~wk[w].written /\ wk'[w].written)
       /\ (wk[w].written /\ wk'[w].pc # "idle") => wk'[w].written
       /\ (wk[w].written /\ wk[w].pc = "handler") =>
             (wk'[w] = wk[w] \/ wk'[w] = IdleWorker)
       /\ \A statusCode \in StatusCodes :
            (WriteHeader(w, statusCode) /\ wk[w].written) =>
               (wk' = wk /\ queue' = queue)
       /\ (Write(w) /\ ~wk[w].written) => wk'[w].statusCode = 200]_vars

\* the event of a request is in the queue while its handler, the header
\* written, can still write a status
C14_Witness ==
  \E w \in Workers :
    /\ wk[w].pc = "handler" /\ wk[w].written
    /\ requests = 1
    /\ queue # <<>> /\ queue[1].Hostname = hostnameOf(w)

\* C15: a request whose first status code is 400 or above goes on to
\* submitToFeed, and so to the queue, only when TrackErrors is set; a first
\* status code below 400 always goes on to submitToFeed.
C15_ErrorsOnlyWithTrackErrors ==
  /\ [](\A w \in Workers :
          (wk[w].pc \in Resolving \cup {"enqueue"} /\ wk[w].statusCode >= 400)
             => config.TrackErrors)
  /\ [][\A w \in Workers :
          /\ \A statusCode \in StatusCodes :
               (WriteHeader(w, statusCode) /\ ~wk[w].written) =>
                  ((wk'[w].pc = "getWebsiteId") <=> (statusCode < 400 \/ config.TrackErrors))
          /\ (submitToFeed(w) /\ queue' # queue) =>
               (wk[w].statusCode \in StatusCodes
                  /\ (wk[w].statusCode < 400 \/ config.TrackErrors))]_vars

\* with TrackErrors set, the event of a 404 response is about to be sent to the queue
C15_Witness ==
  \E w \in Workers :
    /\ wk[w].pc = "enqueue" /\ wk[w].statusCode = 404
    /\ config.TrackErrors

\* C16: ServeHTTP wraps a request exactly when the flag is set, shouldTrackRequest
\* and shouldTrackResource both pass and, with CreateNewWebsites off, the
\* normalised host has an entry in the cache; with CreateNewWebsites on the
\* cache is not read at this point, so the decision does not wait for its lock.
C16_ShouldTrackComposition ==
  /\ [][\A w \in Workers, req \in Requests :
          ServeHTTP(w, req) =>
            ((wk'[w].pc = "handler") <=>
               /\ isEnabled
               /\ shouldTrackRequest(config, ignorePrefixes, ignoreRegexps, req)
               /\ shouldTrackResource(config, req.Path)
               /\ config.CreateNewWebsites
                    \/ parseDomainFromHost(req.Host) \in DOMAIN websites)]_vars
  /\ [](\A w \in Workers, req \in Requests :
          (/\ config.CreateNewWebsites
           /\ wk[w].pc = "idle" /\ w = FirstIdle /\ requests < MaxRequests)
          => ENABLED ServeHTTP(w, req))

\* with CreateNewWebsites off, a request for host "B:port" was wrapped because
\* the cache has an entry for "b"
C16_Witness ==
  \E w \in Workers :
    /\ ~config.CreateNewWebsites
    /\ wk[w].pc = "handler" /\ ~wk[w].written
    /\ wk[w].host = RawHost("b", TRUE, TRUE)
    /\ "b" \in DOMAIN websites

\* C17: a request that ServeHTTP takes while the flag is false is handed on
\* unwrapped; until its handler returns its worker does nothing else, and its
\* return changes neither the cache nor the queue, even when the flag has
\* become true in between.
C17_InactiveRequestsUnwrapped ==
  /\ [][\A w \in Workers :
          /\ (wk[w].pc = "idle" /\ wk'[w].pc # "idle" /\ ~isEnabled) =>
                wk'[w] = [IdleWorker EXCEPT !.pc = "plain"]
          /\ wk[w].pc = "plain" =>
                \/ wk'[w] = wk[w]
                \/ /\ wk'[w] = IdleWorker
                   /\ UNCHANGED <<queue, websites, websitesMutex, createCalls,
                                  createdOk, returned>>]_vars
  /\ [](\A w \in Workers : wk[w].pc = "plain" => wk[w] = [IdleWorker EXCEPT !.pc = "plain"])

\* a request taken while the flag is false has not returned yet, and the retry
\* loop is about to make an attempt that can activate the instance
C17_Witness ==
  /\ ~isEnabled /\ retry.pc = "select" /\ retry.fired
  /\ ActivatableConfig(config) /\ config.UmamiHost # "" /\ config.UmamiToken # ""
  /\ \E w \in Workers : wk[w].pc = "plain"

\* C18: the wait before the attempt that follows k attempts is 0 s for k = 0
\* (the timer has fired at once), 30, 60, 120, 240, 480, 960, 1920 s for
\* k = 1..7 and 3600 s from k = 8 on; from one wait to the next the delay
\* never decreases, and it never exceeds one hour.
C18_BackoffDelays ==
  /\ [](retry.pc = "select" =>
          LET k == retry.retryAttempt
              expected == <<0, 30, 60, 120, 240, 480, 960, 1920>>
          IN /\ retry.currentDelay = (IF k <= 7 THEN expected[k + 1] ELSE 3600)
             /\ retry.currentDelay <= 3600
             /\ k = 0 => retry.fired)
  /\ [][(retry.pc = "select" /\ retry'.pc = "select") =>
          /\ retry'.currentDelay >= retry.currentDelay
          /\ retry'.retryAttempt >= retry.retryAttempt]_vars

\* eight attempts have failed: the next wait is one hour
C18_Witness ==
  /\ retry.pc = "select" /\ retry.retryAttempt = 8
  /\ retry.currentDelay = 3600 /\ ~retry.fired

\* C19: when the context is cancelled while the retry loop waits for its timer,
\* the loop takes no step but its exit, which it does take; the flag stays
\* false and the dispatcher is not started, then and ever after.
C19_CancelledDuringBackoff ==
  /\ [][(cancelled /\ retry.pc = "select" /\ ~retry.fired) =>
          /\ retry' = retry \/ retry'.pc = "cancelled"
          /\ ~isEnabled' /\ feeder'.pc = "idle"
          /\ UNCHANGED <<umamiToken, websites>>]_vars
  /\ [](retry.pc = "cancelled" => (~isEnabled /\ feeder.pc = "idle"))
  /\ [][retry.pc = "cancelled" => (retry' = retry /\ UNCHANGED <<umamiToken, websites>>)]_vars
  /\ (cancelled /\ retry.pc = "select" /\ ~retry.fired) ~> (retry.pc = "cancelled")

\* the context was cancelled during the wait that follows a failed attempt
C19_Witness ==
  /\ cancelled /\ retry.pc = "select" /\ ~retry.fired
  /\ retry.retryAttempt >= 1 /\ ActivatableConfig(config)

\* C20: every step keeps every key of the cache, with the identifier it had.
C20_CacheOnlyGrows ==
  [][\A h \in DOMAIN websites :
       h \in DOMAIN websites' /\ websites'[h] = websites[h]]_vars

\* the cache holds a static or fetched entry for "a" beside the entry of a site
\* created for "b"
C20_Witness ==
  /\ "a" \in DOMAIN websites /\ websites["a"] \in {"s1", "r1"}
  /\ "b" \in DOMAIN websites /\ websites["b"] = CreatedIds[1]
  /\ createdOk["b"] = 1 /\ createdOk["a"] = 0


(***************************************************************************)
(* Ordering and batching of the outbound calls.                            *)
(***************************************************************************)
\* the events that wait for a call: the open batch, then the queue
Pending ==
  (IF feeder.pc = "select" THEN Events(feeder.batch) ELSE <<>>) \o queue

TimeoutWithEmptyBatch ==
  /\ feeder.pc = "select" /\ feeder.timer = 0 /\ feeder.batch = <<>>
  /\ feeder' # feeder /\ feeder'.pc = "select" /\ queue' = queue

\* the step is the event case of the dispatcher filling the batch
BatchFilled ==
  /\ feeder.pc = "select" /\ queue # <<>> /\ queue' = Tail(queue)
  /\ Len(feeder.batch) + 1 >= BatchSize

\* C22: every flush is one call of reportEventsToUmami carrying at least one and
\* at most batchSize events; the batch that reaches batchSize is handed to a
\* call in the step that fills it, the dispatcher goes on with an empty batch
\* and the timer reset (to batchMaxWait, or still holding an expiry that was
\* not received); the timeout case taken with an empty batch makes no call and
\* only re-arms the timer.
C22_FlushSizes ==
  [][ /\ lastReport'.case # "" =>
           /\ Len(lastReport'.events) >= 1
           /\ Len(lastReport'.events) <= BatchSize
      /\ feeder'.pc = "select" => Len(feeder'.batch) < BatchSize
      /\ BatchFilled =>
           /\ lastReport'.case = "event"
           /\ lastReport'.events = Append(Events(feeder.batch), Head(queue))
           /\ \/ feeder'.pc = "reporting"
              \/ feeder'.pc = "select" /\ feeder'.batch = <<>>
                 /\ feeder'.timer \in timerReset([feeder EXCEPT !.case = "event"])
      /\ (feeder.pc = "reporting" /\ feeder'.pc = "select") =>
           /\ feeder'.batch = <<>>
           /\ feeder'.timer = BatchMaxWait
                \/ (feeder.timer = 0 /\ feeder.case = "event" /\ feeder'.timer = 0)
      /\ TimeoutWithEmptyBatch =>
           /\ lastReport' = NoReport
           /\ feeder' = [feeder EXCEPT !.timer = BatchMaxWait]
    ]_vars

\* the batch reached batchSize and its call is under way
C22_Witness ==
  /\ feeder.pc = "reporting"
  /\ lastReport.case = "event"
  /\ Len(lastReport.events) = BatchSize

\* the step ends a call of reportEventsToUmami with an error: h.error is given
\* "failed to send tracking"
ReportFailed == \E i \in DOMAIN logged' : logged'[i] = "failed to send tracking"

\* the events of the call that failed
FailedBatch ==
  IF feeder.pc = "reporting" THEN Events(feeder.batch) ELSE lastReport'.events

\* C23: a failed call of reportEventsToUmami loses its whole batch.  When a call
\* fails none of its events is in the next batch or in the queue, and every
\* event that waits was accepted after them (so that, by the order of delivery,
\* no later call carries one of them); the next batch is empty, the queue gets
\* nothing back, h.isEnabled and the site cache are as before, and the
\* dispatcher is at its select again (unless the call was the one made at
\* ctx.Done(), after which the loop returns).
C23_FailedBatchDiscarded ==
  [][ ReportFailed =>
        /\ FailedBatch # <<>>
        /\ feeder'.batch = <<>>
        /\ \A i \in 1..Len(FailedBatch) :
             /\ FailedBatch[i].seq <= enqueued'
             /\ \A j \in 1..Len(queue') :
                  /\ queue'[j] # FailedBatch[i]
                  /\ queue'[j].seq > FailedBatch[i].seq
        /\ Len(queue') <= Len(queue)
        /\ \A j \in 1..Len(queue') : \E k \in 1..Len(queue) : queue'[j] = queue[k]
        /\ isEnabled' = isEnabled
        /\ websites' = websites
        /\ IF feeder.pc = "select" /\ lastReport'.case = "done"
           THEN feeder'.pc = "exited"
           ELSE feeder'.pc = "select"
    ]_vars

\* the collector refused a batch while the context was live: the dispatcher is
\* at its select with an empty batch and the plugin is active
C23_Witness ==
  /\ logged = <<"failed to send tracking">>
  /\ ~cancelled
  /\ isEnabled
  /\ feeder.pc = "select"
  /\ feeder.batch = <<>>
  /\ enqueued > 0


(***************************************************************************)
(* The create call, the activation flag and the dispatcher.                *)
(***************************************************************************)
\* the step is worker w's create call returning an error
CreateFailed(w) ==
  /\ wk[w].pc = "creating"
  /\ wk'[w].pc # "creating"
  /\ \E i \in DOMAIN logged' : logged'[i] = "failed to create website"

\* C24: a failed create call costs only the event of its own request.  The
\* resolver returns the empty identifier to that caller, the cache (which does
\* not hold the hostname), h.isEnabled, the queue and the other requests are as
\* before, the caller's event is not enqueued and its status is forwarded; and
\* a resolver that finds a hostname absent under the write lock always issues a
\* create call, whatever failed before.
C24_CreateFailureIsLocal ==
  [][ \A w \in Workers :
        /\ CreateFailed(w) =>
             /\ "" \in returned'[hostnameOf(w)]
             /\ websites' = websites
             /\ hostnameOf(w) \notin DOMAIN websites'
             /\ isEnabled' = isEnabled
             /\ queue' = queue /\ enqueued' = enqueued
             /\ feeder' = feeder
             /\ websitesMutex' = NoOwner
             /\ wk'[w].pc = "handler"
             /\ \A v \in Workers \ {w} : wk'[v] = wk[v]
        /\ (wk[w].pc = "lock" /\ wk'[w] # wk[w] /\ hostnameOf(w) \notin DOMAIN websites) =>
             /\ wk'[w].pc = "creating"
             /\ createCalls'[hostnameOf(w)] = createCalls[hostnameOf(w)] + 1
    ]_vars

\* after a failed create call for a hostname a second create call for it is
\* under way
C24_Witness ==
  \E w \in Workers :
    /\ wk[w].pc = "creating"
    /\ "" \in returned[hostnameOf(w)]
    /\ createCalls[hostnameOf(w)] = 2
    /\ createdOk[hostnameOf(w)] = 0

\* C25: at most one dispatch worker exists and its calls do not overlap.  The
\* statement go h.startWorker(ctx) is executed at most once, the dispatcher
\* exists exactly when it was, and a call of reportEventsToUmami is issued only
\* by the dispatcher at its select, never while an earlier call is under way.
C25_OneDispatcher ==
  [][ /\ started' <= 1
      /\ (feeder'.pc # "idle") <=> (started' = 1)
      /\ lastReport'.case # "" =>
           /\ feeder.pc = "select"
           /\ started = 1
      /\ started' # started => (feeder.pc = "idle" /\ retry'.pc = "active")
    ]_vars

\* the one dispatcher has a call under way while events wait in the queue
C25_Witness ==
  /\ started = 1
  /\ feeder.pc = "reporting"
  /\ queue # <<>>


(***************************************************************************)
(* The ignore rules of shouldTrackRequest.                                 *)
(***************************************************************************)
\* the request's host is, as a whole string and without regard to case, one of
\* the ignored hosts
HostIgnored(req) ==
  \E i \in 1..Len(config.IgnoreHosts) :
    /\ req.Host.name = config.IgnoreHosts[i].name
    /\ req.Host.port = config.IgnoreHosts[i].port

\* the client address does not parse
AddrUnparseable(req) == requestIp(config, req) \notin DOMAIN AddrTexts

\* the client address lies in one of the compiled ignore prefixes
AddrInIgnorePrefix(req) ==
  /\ ~AddrUnparseable(req)
  /\ \E i \in 1..Len(ignorePrefixes) :
       PrefixContains(ignorePrefixes[i], AddrTexts[requestIp(config, req)])

\* the user agent contains one of the ignored patterns
UserAgentIgnored(req) ==
  \E i \in 1..Len(config.IgnoreUserAgents), j \in 1..Len(req.UserAgent) :
    req.UserAgent[j] = config.IgnoreUserAgents[i]

\* one of the compiled ignore regexps matches the URL
URLIgnored(req) ==
  \E i \in 1..Len(ignoreRegexps) : <<ignoreRegexps[i], req.Path>> \in RegexpMatches

\* C26 as stated: in the active plugin shouldTrackRequest returns false exactly
\* when the host is an ignored host, or the client address is unparseable or in
\* an ignore prefix, or the user agent contains an ignored pattern, or an ignore
\* regexp matches the URL.
C26_FalseExactlyWhenListed ==
  isEnabled => \A req \in Requests :
    shouldTrackRequest(config, ignorePrefixes, ignoreRegexps, req) <=>
      ~(\/ HostIgnored(req)
        \/ AddrUnparseable(req) \/ AddrInIgnorePrefix(req)
        \/ UserAgentIgnored(req)
        \/ URLIgnored(req))

\* C26, amended: in the active plugin the client address is looked at only when
\* at least one ignore prefix is compiled; then an unparseable address or an address in a prefix
\* makes shouldTrackRequest return false.  The other three rules are as stated.
C26_FalseExactlyWhenRuleApplies ==
  isEnabled => \A req \in Requests :
    shouldTrackRequest(config, ignorePrefixes, ignoreRegexps, req) <=>
      ~(\/ HostIgnored(req)
        \/ Len(ignorePrefixes) > 0 /\ (AddrUnparseable(req) \/ AddrInIgnorePrefix(req))
        \/ UserAgentIgnored(req)
        \/ URLIgnored(req))

\* the active plugin has compiled ignore prefixes and wrapped a request; of the
\* requests it may get, one is refused for its unparseable address only and one
\* for its address in a prefix only
C26_Witness ==
  /\ isEnabled
  /\ Len(ignorePrefixes) > 0
  /\ \E w \in Workers : wk[w].pc = "handler"
  /\ \E req \in Requests :
       /\ AddrUnparseable(req)
       /\ ~HostIgnored(req) /\ ~UserAgentIgnored(req) /\ ~URLIgnored(req)
       /\ ~shouldTrackRequest(config, ignorePrefixes, ignoreRegexps, req)
  /\ \E req \in Requests :
       /\ AddrInIgnorePrefix(req)
       /\ ~HostIgnored(req) /\ ~UserAgentIgnored(req) /\ ~URLIgnored(req)
       /\ ~shouldTrackRequest(config, ignorePrefixes, ignoreRegexps, req)


(***************************************************************************)
(* The activation flag after activation; resolution without auto-creation. *)
(***************************************************************************)
\* C27: h.isEnabled never goes back to false.  No step taken while the flag is
\* true leaves it false: not a failed batch call, a failed create call, a full
\* queue, a fault or the return of the dispatcher, nor the cancellation.
C27_FlagStaysTrue ==
  [][isEnabled => isEnabled']_vars

\* the context is cancelled, the dispatcher has returned, an event has just been
\* dropped at the full queue, and the flag is still true
C27_Witness ==
  /\ isEnabled
  /\ cancelled
  /\ feeder.pc = "exited"
  /\ logged = <<"failed to submit event: queue full">>

\* C28: with CreateNewWebsites off no create call is ever issued.  Every request
\* that is wrapped, and so every call of getWebsiteId, is for a hostname the
\* cache holds: the resolver returns at its first lookup, no worker takes the
\* write lock, and the count of create calls stays zero for every hostname.
C28_NoCreateWithoutAutoCreation ==
  ~config.CreateNewWebsites =>
    /\ \A h \in Hostnames : createCalls[h] = 0 /\ createdOk[h] = 0
    /\ websitesMutex = NoOwner
    /\ \A w \in Workers :
         /\ wk[w].pc \notin {"lock", "creating"}
         /\ wk[w].pc \in {"handler", "getWebsiteId", "enqueue"} =>
              hostnameOf(w) \in DOMAIN websites

\* with CreateNewWebsites off, the resolver has returned the cached identifier
\* and the event is about to be offered to the queue
C28_Witness ==
  /\ ~config.CreateNewWebsites
  /\ \E w \in Workers :
       /\ wk[w].pc = "enqueue"
       /\ hostnameOf(w) \in DOMAIN websites
       /\ wk[w].websiteId = websites[hostnameOf(w)]
====
